---- MODULE Spec2Model ----
(***************************************************************************)
(* Model of the envelope-addr crate (src/src/lib.rs): the Addr value type, *)
(* Addr::parse_envelope, the formatting helpers and with_domain.            *)
(*                                                                         *)
(* A string is a sequence of Unicode scalar values (integers).  A caller    *)
(* holds one input string, the Result of the last parse of it, at most one  *)
(* Addr value, and the last string or boolean an Addr method returned.      *)
(***************************************************************************)
EXTENDS Integers, Sequences, FiniteSets

VARIABLES input, res, addr, origin, out, flag, last

vars == <<input, res, addr, origin, out, flag, last>>

(***************************************************************************)
(* Bounds of the model.                                                    *)
(***************************************************************************)
\* longest input string enumerated in full over Chars
MaxLen == 5
\* longest replacement domain handed to with_domain
MaxDomLen == 1
\* longest display name / local part / domain of the display-name inputs
MaxNameLen == 1

(***************************************************************************)
(* Characters.                                                             *)
(***************************************************************************)
LT == 60
GT == 62
AT == 64
SPACE == 32
IDEOGRAPHIC_SPACE == 12288
LOWER_A == 97
UPPER_A == 65
UPPER_U_DIAERESIS == 220

\* the characters inputs are drawn from: one of each class the parser tells apart
Letters == {LOWER_A, UPPER_A, UPPER_U_DIAERESIS}
Chars == Letters \cup {AT, LT, GT, SPACE}

\* char::is_whitespace: the Unicode White_Space property
WhiteSpace ==
    (9..13) \cup {32, 133, 160, 5760} \cup (8192..8202)
        \cup {8232, 8233, 8239, 8287, 12288}

is_whitespace(c) == c \in WhiteSpace

(***************************************************************************)
(* str helpers of the standard library, as parse_envelope uses them.       *)
(***************************************************************************)
RECURSIVE trim_start(_)
trim_start(s) ==
    IF s # <<>> /\ is_whitespace(Head(s)) THEN trim_start(Tail(s)) ELSE s

RECURSIVE trim_end(_)
trim_end(s) ==
    IF s # <<>> /\ is_whitespace(s[Len(s)])
    THEN trim_end(SubSeq(s, 1, Len(s) - 1))
    ELSE s

\* s.trim()   (the mutant trims the front only)
trim_front_only(s) == trim_start(s)

trim(s) == trim_end(trim_start(s))

None == [some |-> FALSE, val |-> <<>>]
Some(v) == [some |-> TRUE, val |-> v]

\* t.strip_prefix("<")
strip_prefix(t, c) ==
    IF t # <<>> /\ Head(t) = c THEN Some(Tail(t)) ELSE None

\* t.strip_suffix(">")
strip_suffix(t, c) ==
    IF t # <<>> /\ t[Len(t)] = c THEN Some(SubSeq(t, 1, Len(t) - 1)) ELSE None

\* t.contains(c)
RECURSIVE contains(_, _)
contains(t, c) ==
    IF t = <<>> THEN FALSE
    ELSE IF Head(t) = c THEN TRUE
    ELSE contains(Tail(t), c)

\* t.chars().any(|c| c.is_whitespace())
RECURSIVE any_whitespace(_)
any_whitespace(t) ==
    IF t = <<>> THEN FALSE
    ELSE IF is_whitespace(Head(t)) THEN TRUE
    ELSE any_whitespace(Tail(t))

\* t.split_once("@"): the text before and after the first occurrence, if any
RECURSIVE split_from(_, _, _)
split_from(before, rest, c) ==
    IF rest = <<>> THEN [some |-> FALSE, left |-> <<>>, right |-> <<>>]
    ELSE IF Head(rest) = c
         THEN [some |-> TRUE, left |-> before, right |-> Tail(rest)]
         ELSE split_from(Append(before, Head(rest)), Tail(rest), c)

split_once(t, c) == split_from(<<>>, t, c)

\* u8::to_ascii_lowercase on one scalar value: only A-Z change
\* (the mutant lowers the non-ASCII letter too, as str::to_lowercase would)
char_to_lowercase_unicode(c) ==
    IF (c >= 65 /\ c <= 90) \/ c = UPPER_U_DIAERESIS THEN c + 32 ELSE c

char_to_ascii_lowercase(c) == IF c >= 65 /\ c <= 90 THEN c + 32 ELSE c

\* str::to_ascii_lowercase
to_ascii_lowercase(s) == [i \in 1..Len(s) |-> char_to_ascii_lowercase(s[i])]

(***************************************************************************)
(* Addr and Result<Addr, AddrError>.                                       *)
(***************************************************************************)
AddrErrors == {"Empty", "MissingAt", "InvalidBrackets", "InvalidCharacter", "Whitespace"}

Addr(l, d) == [local |-> l, domain |-> d]
Ok(l, d) == [tag |-> "Ok", local |-> l, domain |-> d, err |-> ""]
Err(e) == [tag |-> "Err", local |-> <<>>, domain |-> <<>>, err |-> e]
NoResult == [tag |-> "None", local |-> <<>>, domain |-> <<>>, err |-> ""]
NoAddr == [some |-> FALSE, local |-> <<>>, domain |-> <<>>]
SomeAddr(l, d) == [some |-> TRUE, local |-> l, domain |-> d]

NullForm == <<LT, GT>>

(***************************************************************************)
(* Addr::parse_envelope, in the order of the code.                         *)
(***************************************************************************)
\* lines 35-51: strip one "<" and one ">"; asymmetric brackets are an error
\* (the mutant omits the else branch, so an unclosed "<" is accepted)
bracket_strip_no_unclosed_check(t) ==
    LET lstrip == strip_prefix(t, LT)
        is_bracketed == lstrip.some
        t1 == IF lstrip.some THEN lstrip.val ELSE t
        rstrip == strip_suffix(t1, GT)
    IN  IF rstrip.some
        THEN IF ~is_bracketed
             THEN [err |-> "InvalidBrackets", t |-> <<>>]
             ELSE [err |-> "", t |-> rstrip.val]
        ELSE [err |-> "", t |-> t1]

bracket_strip(t) ==
    LET lstrip == strip_prefix(t, LT)
        is_bracketed == lstrip.some
        t1 == IF lstrip.some THEN lstrip.val ELSE t
        rstrip == strip_suffix(t1, GT)
    IN  IF rstrip.some
        THEN IF ~is_bracketed
             THEN [err |-> "InvalidBrackets", t |-> <<>>]
             ELSE [err |-> "", t |-> rstrip.val]
        ELSE IF is_bracketed
             THEN [err |-> "InvalidBrackets", t |-> <<>>]
             ELSE [err |-> "", t |-> t1]

\* lines 52-62: whitespace, stray brackets, empty residue; "" when none applies
\* (the mutant tests the residue for emptiness after trimming it, first)
token_check_trimmed_empty_first(t) ==
    IF trim(t) = <<>> THEN "Empty"
    ELSE IF any_whitespace(t) THEN "Whitespace"
    ELSE IF contains(t, LT) \/ contains(t, GT) THEN "InvalidBrackets"
    ELSE ""

token_check(t) ==
    IF any_whitespace(t) THEN "Whitespace"
    ELSE IF contains(t, LT) \/ contains(t, GT) THEN "InvalidBrackets"
    ELSE IF t = <<>> THEN "Empty"
    ELSE ""

\* lines 63-75: split at the first "@", check the parts, lower the domain
\* (the mutants: no empty-part check; no second-"@" check; the empty-part
\*  check after the second-"@" check)
split_check_no_empty_part(t) ==
    LET sp == split_once(t, AT)
    IN  IF ~sp.some THEN Err("MissingAt")
        ELSE IF contains(sp.right, AT) THEN Err("InvalidCharacter")
        ELSE Ok(sp.left, to_ascii_lowercase(sp.right))

split_check_no_second_at(t) ==
    LET sp == split_once(t, AT)
    IN  IF ~sp.some THEN Err("MissingAt")
        ELSE IF sp.left = <<>> \/ sp.right = <<>> THEN Err("Empty")
        ELSE Ok(sp.left, to_ascii_lowercase(sp.right))

split_check_second_at_first(t) ==
    LET sp == split_once(t, AT)
    IN  IF ~sp.some THEN Err("MissingAt")
        ELSE IF contains(sp.right, AT) THEN Err("InvalidCharacter")
        ELSE IF sp.left = <<>> \/ sp.right = <<>> THEN Err("Empty")
        ELSE Ok(sp.left, to_ascii_lowercase(sp.right))

split_check(t) ==
    LET sp == split_once(t, AT)
    IN  IF ~sp.some THEN Err("MissingAt")
        ELSE IF sp.left = <<>> \/ sp.right = <<>> THEN Err("Empty")
        ELSE IF contains(sp.right, AT) THEN Err("InvalidCharacter")
        ELSE Ok(sp.left, to_ascii_lowercase(sp.right))

parse_envelope(s) ==
    LET t0 == trim(s)
    IN  IF t0 = NullForm THEN Ok(<<>>, <<>>)
        ELSE LET b == bracket_strip(t0)
             IN  IF b.err # "" THEN Err(b.err)
                 ELSE IF token_check(b.t) # "" THEN Err(token_check(b.t))
                 ELSE split_check(b.t)

\* FromStr::from_str
from_str(s) == parse_envelope(s)

(***************************************************************************)
(* The methods of Addr.                                                    *)
(***************************************************************************)
\* (the mutant writes the domain before the local part)
to_addr_spec_swapped(a) == a.domain \o <<AT>> \o a.local

to_addr_spec(a) == a.local \o <<AT>> \o a.domain

is_null(a) == a.local = <<>> /\ a.domain = <<>>

to_bracketed(a) == <<LT>> \o to_addr_spec(a) \o <<GT>>

with_domain(a, d) == Addr(a.local, d)

\* impl fmt::Display for Addr
fmt(a) == IF is_null(a) THEN <<LT, GT>> ELSE a.local \o <<AT>> \o a.domain

(***************************************************************************)
(* The inputs.                                                             *)
(***************************************************************************)
Strings(S, n) == UNION {[1..k -> S] : k \in 0..n}
NonEmptyStrings(S, n) == UNION {[1..k -> S] : k \in 1..n}

\* "Name <local@domain>": a name, whitespace, a bracketed addr-spec
DisplayNameInputs ==
    {name \o <<w>> \o <<LT>> \o l \o <<AT>> \o d \o <<GT>> :
        name \in NonEmptyStrings(Letters, MaxNameLen),
        w \in {SPACE, IDEOGRAPHIC_SPACE},
        l \in NonEmptyStrings(Letters, MaxNameLen),
        d \in NonEmptyStrings(Letters, MaxNameLen)}

Inputs == Strings(Chars, MaxLen) \cup DisplayNameInputs

\* replacement domains for with_domain, which does not look at them
Domains == Strings({LOWER_A, UPPER_A}, MaxDomLen)

(***************************************************************************)
(* The state machine: a caller of the library.                             *)
(***************************************************************************)
Init ==
    /\ input \in Inputs
    /\ res = NoResult
    /\ addr = NoAddr
    /\ origin = "none"
    /\ out = <<>>
    /\ flag = FALSE
    /\ last = "init"

\* the caller's  let a = Addr::parse_envelope(input)
Parsed(r) ==
    /\ res' = r
    /\ addr' = IF r.tag = "Ok" THEN SomeAddr(r.local, r.domain) ELSE NoAddr
    /\ origin' = IF r.tag = "Ok" THEN "parse" ELSE "none"
    /\ out' = <<>>
    /\ flag' = FALSE
    /\ last' = "parse"
    /\ UNCHANGED input

ParseEnvelope == Parsed(parse_envelope(input))

FromStr == Parsed(from_str(input))

WithDomain ==
    /\ addr.some
    /\ \E d \in Domains :
        LET a == with_domain(addr, d)
        IN  addr' = SomeAddr(a.local, a.domain)
    /\ origin' = "with_domain"
    /\ out' = <<>>
    /\ flag' = FALSE
    /\ last' = "with_domain"
    /\ UNCHANGED <<input, res>>

ToAddrSpec ==
    /\ addr.some
    /\ out' = to_addr_spec(addr)
    /\ flag' = FALSE
    /\ last' = "to_addr_spec"
    /\ UNCHANGED <<input, res, addr, origin>>

ToBracketed ==
    /\ addr.some
    /\ out' = to_bracketed(addr)
    /\ flag' = FALSE
    /\ last' = "to_bracketed"
    /\ UNCHANGED <<input, res, addr, origin>>

Display ==
    /\ addr.some
    /\ out' = fmt(addr)
    /\ flag' = FALSE
    /\ last' = "display"
    /\ UNCHANGED <<input, res, addr, origin>>

IsNull ==
    /\ addr.some
    /\ flag' = is_null(addr)
    /\ out' = <<>>
    /\ last' = "is_null"
    /\ UNCHANGED <<input, res, addr, origin>>

\* the caller parses the text to_addr_spec returned, keeping the Addr it rendered
Reparse ==
    /\ last = "to_addr_spec"
    /\ input' = out
    /\ res' = parse_envelope(out)
    /\ last' = "reparse"
    /\ UNCHANGED <<addr, origin, out, flag>>

Next ==
    \/ ParseEnvelope
    \/ FromStr
    \/ WithDomain
    \/ ToAddrSpec
    \/ ToBracketed
    \/ Display
    \/ IsNull
    \/ Reparse

Spec == Init /\ [][Next]_vars

(***************************************************************************)
(* Reference readings of the input, written on positions and independent   *)
(* of the operators above.                                                 *)
(***************************************************************************)
Range(s) == {s[i] : i \in 1..Len(s)}

Count(s, c) == Cardinality({i \in 1..Len(s) : s[i] = c})

\* the input without its leading and trailing whitespace
RefTrim(s) ==
    LET keep == {i \in 1..Len(s) : s[i] \notin WhiteSpace}
    IN  IF keep = {} THEN <<>>
        ELSE LET lo == CHOOSE i \in keep : \A j \in keep : i <= j
                 hi == CHOOSE i \in keep : \A j \in keep : j <= i
             IN  SubSeq(s, lo, hi)

\* the trimmed input without one enclosing pair of angle brackets, if it has one
RefToken(s) ==
    LET t == RefTrim(s)
    IN  IF Len(t) >= 2 /\ t[1] = LT /\ t[Len(t)] = GT
        THEN SubSeq(t, 2, Len(t) - 1)
        ELSE t

\* the position of the first "@" of t, or 0
FirstAt(t) ==
    IF AT \in Range(t)
    THEN CHOOSE i \in 1..Len(t) : t[i] = AT /\ \A j \in 1..(i - 1) : t[j] # AT
    ELSE 0

\* the token holds no whitespace and no angle bracket
CleanToken(t) == Range(t) \cap (WhiteSpace \cup {LT, GT}) = {}

\* "<>" with nothing but whitespace around it
NullPadded(s) ==
    \E i \in 1..(Len(s) - 1) :
        /\ s[i] = LT
        /\ s[i + 1] = GT
        /\ \A j \in (1..Len(s)) \ {i, i + 1} : s[j] \in WhiteSpace

\* after trimming: "<", one or more whitespace characters, ">"
BracketedBlank(s) ==
    LET t == RefTrim(s)
    IN  /\ Len(t) >= 3
        /\ t[1] = LT
        /\ t[Len(t)] = GT
        /\ \A i \in 2..(Len(t) - 1) : t[i] \in WhiteSpace

\* a bare local@domain token: nothing around it, no brackets
BareToken(s) ==
    /\ s # <<>>
    /\ s[1] \notin WhiteSpace
    /\ s[Len(s)] \notin WhiteSpace
    /\ Range(s) \cap {LT, GT} = {}

HalfEmpty(l, d) == (l = <<>>) # (d = <<>>)

\* the outcome the precedence  empty, no "@", empty part, second "@", success
\* gives for token t
RefOutcome(r, t) ==
    LET k == FirstAt(t)
    IN  IF t = <<>> THEN r = Err("Empty")
        ELSE IF k = 0 THEN r = Err("MissingAt")
        ELSE IF k = 1 \/ k = Len(t) THEN r = Err("Empty")
        ELSE IF AT \in Range(SubSeq(t, k + 1, Len(t))) THEN r = Err("InvalidCharacter")
        ELSE r.tag = "Ok"

\* parse_envelope reaches line 60 with an empty residue
Step6Empty(s) ==
    LET t0 == trim(s)
        b == bracket_strip(t0)
    IN  /\ t0 # NullForm
        /\ b.err = ""
        /\ token_check(b.t) = "Empty"

(***************************************************************************)
(* The claims.                                                             *)
(***************************************************************************)

\* C1: a successful parse returns an Addr with both fields non-empty or both
\* empty, and both are empty exactly when the trimmed input is "<>".
C1_ParseNeverHalfEmpty ==
    res.tag = "Ok" =>
        /\ ~HalfEmpty(res.local, res.domain)
        /\ (res.local = <<>> /\ res.domain = <<>>) <=> (RefTrim(input) = <<LT, GT>>)

\* C1 witness: a padded "<>" was parsed to the null Addr
C1_Witness ==
    /\ last = "parse"
    /\ Len(input) = 4
    /\ RefTrim(input) = <<LT, GT>>
    /\ res = Ok(<<>>, <<>>)

\* C2: no sequence of parse_envelope, from_str and with_domain leaves the
\* caller with a half-empty Addr (exactly one of local, domain empty).
C2_NoHalfEmptyAddr == addr.some => ~HalfEmpty(addr.local, addr.domain)

\* C3: parsing the to_addr_spec text of a successfully parsed non-null Addr
\* succeeds and returns that Addr.
C3_RoundTrip ==
    (last = "reparse" /\ origin = "parse" /\ ~(addr.local = <<>> /\ addr.domain = <<>>))
        => res = Ok(addr.local, addr.domain)

\* C3 witness: the text of a parsed Addr with a two-character domain was parsed again
C3_Witness ==
    /\ last = "reparse"
    /\ origin = "parse"
    /\ addr.local # <<>>
    /\ Len(addr.domain) = 2
    /\ input = out

\* C4: an input of display-name form (a name, whitespace, a bracketed
\* address) is rejected with the error Whitespace.
C4_DisplayNameIsWhitespace ==
    (last = "parse" /\ input \in DisplayNameInputs) => res = Err("Whitespace")

\* C5: for a bare token local@domain that parses to a non-null Addr, the
\* token wrapped in "<" and ">" parses to the same Addr, and the token with
\* only "<" before it or only ">" after it fails with InvalidBrackets.
C5_BracketSymmetry ==
    (last = "parse" /\ res.tag = "Ok" /\ res.local # <<>> /\ BareToken(input)) =>
        /\ parse_envelope(<<LT>> \o input \o <<GT>>) = res
        /\ parse_envelope(<<LT>> \o input) = Err("InvalidBrackets")
        /\ parse_envelope(input \o <<GT>>) = Err("InvalidBrackets")

\* C5 witness: a bare token with an upper-case domain letter was parsed
C5_Witness ==
    /\ last = "parse"
    /\ res.tag = "Ok"
    /\ BareToken(input)
    /\ input = <<LOWER_A, AT, UPPER_A>>

\* C6: "<>" with only whitespace around it parses to the null Addr, for
\* which is_null is true, to_addr_spec is "@" and Display is "<>".
C6_NullCanonical ==
    (last # "init" /\ NullPadded(input)) =>
        /\ res = Ok(<<>>, <<>>)
        /\ origin = "parse" =>
            /\ addr = SomeAddr(<<>>, <<>>)
            /\ last = "is_null" => flag
            /\ last = "to_addr_spec" => out = <<AT>>
            /\ last = "display" => out = <<LT, GT>>

\* C6 witness: the null Addr parsed from " <> " was displayed
C6_Witness ==
    /\ input = <<SPACE, LT, GT, SPACE>>
    /\ origin = "parse"
    /\ last = "display"

\* C7: on success with a non-null Addr, local is the text before the first
\* "@" of the trimmed, unbracketed input, unchanged; domain is the text after
\* it with A-Z lowered and every other character unchanged; so the domain has
\* no ASCII upper-case letter and lowering it again changes nothing.
C7_CaseHandling ==
    (res.tag = "Ok" /\ res.local # <<>>) =>
        LET tok == RefToken(input)
            k == FirstAt(tok)
        IN  /\ k > 0
            /\ res.local = SubSeq(tok, 1, k - 1)
            /\ Len(res.domain) = Len(tok) - k
            /\ \A i \in 1..Len(res.domain) :
                res.domain[i] =
                    IF tok[k + i] \in 65..90 THEN tok[k + i] + 32 ELSE tok[k + i]
            /\ Range(res.domain) \cap (65..90) = {}
            /\ to_ascii_lowercase(res.domain) = res.domain

\* C7 witness: "A@AU" with U the non-ASCII upper-case letter: local stays "A",
\* the domain becomes "aU"
C7_Witness ==
    /\ last = "parse"
    /\ input = <<UPPER_A, AT, UPPER_A, UPPER_U_DIAERESIS>>
    /\ res = Ok(<<UPPER_A>>, <<LOWER_A, UPPER_U_DIAERESIS>>)

\* C8: parse_envelope never succeeds on an input with more than one "@", or
\* whose trimmed token holds whitespace or an angle bracket beyond one
\* enclosing pair; the fields of a returned Addr hold no "@", no whitespace
\* and no angle bracket.
C8_NoForbiddenCharacters ==
    res.tag = "Ok" =>
        /\ Count(input, AT) <= 1
        /\ CleanToken(RefToken(input))
        /\ (Range(res.local) \cup Range(res.domain))
                \cap (WhiteSpace \cup {AT, LT, GT}) = {}

\* C8 witness: an input with two "@" was rejected
C8_Witness ==
    /\ last = "parse"
    /\ Count(input, AT) = 2
    /\ CleanToken(RefToken(input))
    /\ res = Err("InvalidCharacter")

\* C9 (as stated): for a token that after trimming and removal of at most one
\* matching bracket pair holds no whitespace and no angle bracket, the result
\* is Empty if it is empty, else MissingAt without "@", else Empty with an
\* empty part, else InvalidCharacter with a second "@", else success.
C9_Precedence ==
    (last # "init" /\ CleanToken(RefToken(input)))
        => RefOutcome(res, RefToken(input))

\* C9 (amended): the same, for every such token but the null form "<>",
\* whose residue is empty and which succeeds with the null Addr.
C9_PrecedenceExceptNull ==
    (last # "init" /\ CleanToken(RefToken(input)) /\ RefTrim(input) # <<LT, GT>>)
        => RefOutcome(res, RefToken(input))

\* C9 witness: "@@a", an empty local part before a second "@", is Empty
C9_Witness ==
    /\ last = "parse"
    /\ input = <<AT, AT, LOWER_A>>
    /\ res = Err("Empty")

\* C10 (as stated): an input that after trimming is "<", one or more
\* whitespace characters, ">" fails with Empty.
C10_BracketedBlankIsEmpty ==
    (last # "init" /\ BracketedBlank(input)) => res = Err("Empty")

\* C10 (amended): such an input fails with Whitespace, and the empty-residue
\* check of line 60 answers Empty only for the empty or whitespace-only input.
C10_BracketedBlankIsWhitespace ==
    last # "init" =>
        /\ BracketedBlank(input) => res = Err("Whitespace")
        /\ Step6Empty(input) => (RefTrim(input) = <<>> /\ res = Err("Empty"))

\* C10 witness: "<  >" was rejected
C10_Witness ==
    /\ last = "parse"
    /\ input = <<LT, SPACE, SPACE, GT>>
    /\ res.tag = "Err"

====
